---- MODULE Spec2Model ----
(***************************************************************************)
(* Training-load analytics of strava-improvement (pages/Analisi.py, with   *)
(* the older page variant app.py): the time-window filter, the weekly      *)
(* aggregation with its percentage changes, the volume progression         *)
(* analysis and the pace-based intensity classification.                   *)
(*                                                                         *)
(* Units.  distance: 0.01 km;  moving_time: minutes;  average_speed: km/h; *)
(* pace: minutes per km;  datetime_local: hours since 2024-01-01 00:00.    *)
(* Floating-point values are exact rationals [k, n, d] (k = "num"), with   *)
(* the IEEE specials NaN (k = "nan") and +-infinity (k = "inf"); the       *)
(* rounding of binary floating point (one part in 10^16) is not modelled.  *)
(***************************************************************************)
EXTENDS Integers, Sequences, FiniteSets, TLC

VARIABLES
    pc,                      \* position of the run
    df,                      \* normalized activities (DataFrame rows)
    date_range,              \* st.session_state.date_range, <<start, end>>
    selected_activity_type,  \* st.session_state.selected_activity_type
    df_filtered,             \* rows kept by the filter
    weekly_distance,         \* rows Year, Week, Distance, Time, *_pct
    weekly_sessions,         \* rows Year, Week, Sessions
    race_pace,               \* reference pace handed to add_intensity_index
    race_distance,           \* reference distance handed to it
    adjusted_reference_pace, \* reference pace times the distance factor
    df_intensity,            \* rows with intensity_index and zone
    easy_percentage,         \* compute_easy_percentage(df_intensity)
    volume_analysis,         \* analyze_volume_progression(weekly_distance)
    activities,              \* raw activities as the API returned them
    longest_runs,            \* the longest Run of every week
    frequency_analysis,      \* analyze_frequency_consistency(weekly_sessions)
    intensity_analysis,      \* analyze_intensity_distribution(df_intensity)
    verdicts,                \* the boxes display_training_summary shows
    selection,               \* the radio choice of the reference pace
    access_token,            \* st.session_state.access_token ("" when unset)
    session_log,             \* event types passed to log_user_session
    warnings,                \* the warnings the page has shown
    page,                    \* get_activities: the page to request
    requests_in_window,      \* requests counted in the 15-minute window
    daily_requests,          \* requests counted in the day
    window_start,            \* start of the window, seconds after daily_start
    now,                     \* the clock, seconds after daily_start
    wait_time,               \* the last wait computed at the window limit
    response,                \* the last response received
    server                   \* the history served and how the server answers

vars == <<pc, df, date_range, selected_activity_type, df_filtered,
          weekly_distance, weekly_sessions, race_pace, race_distance,
          adjusted_reference_pace, df_intensity, easy_percentage,
          volume_analysis, activities, longest_runs, frequency_analysis,
          intensity_analysis, verdicts, selection, access_token,
          session_log, warnings, page, requests_in_window, daily_requests,
          window_start, now, wait_time, response, server>>

sessionVars == <<access_token, session_log, warnings>>

fetchVars == <<page, requests_in_window, daily_requests, window_start, now,
               wait_time, response, server>>

----------------------------------------------------------------------------
(* Bounds of the model *)

MaxActs == 3

MaxRecs == 3

MaxWeeks == 4

----------------------------------------------------------------------------
(* Float arithmetic as done by Python / numpy / pandas, in exact rationals *)

AbsInt(i) == IF i < 0 THEN -i ELSE i

SignInt(i) == IF i < 0 THEN -1 ELSE IF i > 0 THEN 1 ELSE 0

RECURSIVE Gcd(_, _)
Gcd(a, b) == IF b = 0 THEN a ELSE Gcd(b, a % b)

Num(n, d) ==
    LET g == Gcd(AbsInt(n), AbsInt(d))
        s == SignInt(d)
    IN  [k |-> "num", n |-> (s * n) \div g, d |-> (s * d) \div g]

NaN == [k |-> "nan", n |-> 0, d |-> 1]

Inf(sign) == [k |-> "inf", n |-> sign, d |-> 1]

None == [k |-> "none", n |-> 0, d |-> 1]

IsNum(x) == x.k = "num"

\* a pandas float column holds None as NaN
AsFloat(x) == IF x.k = "none" THEN NaN ELSE x

\* Series / Series and Series / scalar: x/0 is +-inf, 0/0 is NaN
Div(a, b) ==
    IF a.k = "nan" \/ b.k = "nan" THEN NaN
    ELSE IF a.k = "inf" /\ b.k = "inf" THEN NaN
    ELSE IF a.k = "inf" THEN Inf(a.n * (IF b.n < 0 THEN -1 ELSE 1))
    ELSE IF b.k = "inf" THEN Num(0, 1)
    ELSE IF b.n = 0 THEN (IF a.n = 0 THEN NaN ELSE Inf(SignInt(a.n)))
    ELSE Num(a.n * b.d, a.d * b.n)

Mul(a, b) ==
    IF a.k = "nan" \/ b.k = "nan" THEN NaN
    ELSE IF a.k = "inf" \/ b.k = "inf"
         THEN (IF a.n = 0 \/ b.n = 0 THEN NaN
               ELSE Inf(SignInt(a.n) * SignInt(b.n)))
    ELSE Num(a.n * b.n, a.d * b.d)

Sub(a, b) ==
    IF a.k = "nan" \/ b.k = "nan" THEN NaN
    ELSE IF a.k = "inf" /\ b.k = "inf"
         THEN (IF a.n = b.n THEN NaN ELSE a)
    ELSE IF a.k = "inf" THEN a
    ELSE IF b.k = "inf" THEN Inf(-b.n)
    ELSE Num(a.n * b.d - b.n * a.d, a.d * b.d)

AbsF(a) ==
    IF a.k = "nan" THEN NaN
    ELSE IF a.k = "inf" THEN Inf(1)
    ELSE Num(AbsInt(a.n), a.d)

\* comparisons: every comparison with NaN is False
Le(a, b) ==
    IF a.k = "nan" \/ b.k = "nan" THEN FALSE
    ELSE IF a.k = "inf" /\ b.k = "inf" THEN a.n <= b.n
    ELSE IF a.k = "inf" THEN a.n < 0
    ELSE IF b.k = "inf" THEN b.n > 0
    ELSE a.n * b.d <= b.n * a.d

Lt(a, b) ==
    IF a.k = "nan" \/ b.k = "nan" THEN FALSE
    ELSE IF a.k = "inf" /\ b.k = "inf" THEN a.n < b.n
    ELSE IF a.k = "inf" THEN a.n < 0
    ELSE IF b.k = "inf" THEN b.n > 0
    ELSE a.n * b.d < b.n * a.d

Ge(a, b) == Le(b, a)

Gt(a, b) == Lt(b, a)

\* Python round(x, 1) of a non-negative float: nearest tenth, an exactly
\* representable tie (.25, .75) going to the even tenth
Round1(x) ==
    LET q == (10 * x.n) \div x.d
        r == (10 * x.n) % x.d
    IN  IF 2 * r < x.d THEN Num(q, 10)
        ELSE IF 2 * r > x.d THEN Num(q + 1, 10)
        ELSE IF q % 2 = 0 THEN Num(q, 10) ELSE Num(q + 1, 10)

----------------------------------------------------------------------------
(* Sequences as DataFrames *)

RECURSIVE SelectRows(_, _)
\* df[mask]: the rows whose mask is True, in the order of df
SelectRows(rows, mask) ==
    IF rows = <<>> THEN <<>>
    ELSE IF mask[1]
         THEN <<rows[1]>> \o SelectRows(Tail(rows), Tail(mask))
         ELSE SelectRows(Tail(rows), Tail(mask))

\* df[name] = values: every row gets the column, the others are kept
WithColumn(r, name, val) ==
    [f \in DOMAIN r \cup {name} |-> IF f = name THEN val ELSE r[f]]

RECURSIVE SumInt(_, _)
SumInt(f, S) ==
    IF S = {} THEN 0
    ELSE LET x == CHOOSE y \in S : TRUE IN f[x] + SumInt(f, S \ {x})

----------------------------------------------------------------------------
(* Calendar: dt.date and dt.isocalendar() for 2024-01-01 .. 2026-12-31 *)

\* day ordinal (days since Monday 2024-01-01) of a datetime
DateOf(datetime) == datetime \div 24

\* ordinal of January 1st of the years 2024 (leap) .. 2027
YearStart(y) == CASE y = 2024 -> 0
                  [] y = 2025 -> 366
                  [] y = 2026 -> 731
                  [] OTHER    -> 1096

CalendarYear(day) == IF day < YearStart(2025) THEN 2024
                     ELSE IF day < YearStart(2026) THEN 2025
                     ELSE 2026

\* ISO 8601: the week belongs to the year holding its Thursday
IsoCalendar(datetime) ==
    LET day      == DateOf(datetime)
        thursday == day - (day % 7) + 3
        y        == CalendarYear(thursday)
    IN  [year |-> y, week |-> ((thursday - YearStart(y)) \div 7) + 1]

\* lexicographic order of the (year, week) group keys
KeyLt(a, b) == a.year < b.year \/ (a.year = b.year /\ a.week < b.week)

----------------------------------------------------------------------------
(* Normalized activities, as get_activities returns them *)

\* workout_type is absent (<<>>) or present (<<1>> marks a race)
Activity(id, sport, type, datetime, distance, moving_time, speed, wt) ==
    [activity_id |-> id, sport |-> sport, type |-> type,
     datetime_local |-> datetime, distance |-> distance,
     moving_time |-> moving_time, average_speed |-> speed,
     workout_type |-> wt]

\* The activities a fetch may return: two ISO years, a week without any
\* activity (2025-W02), activities without speed (one of them tagged as a
\* race), three sports, two races with a speed, two Runs of the same week
\* and the same distance.
Pool ==
    { Activity(1, "Run",  "Run",      357 * 24 + 7,  1000, 50,  12, <<>>),
      Activity(2, "Run",  "TrailRun", 363 * 24 + 18, 0,    30,  0,  <<0>>),
      Activity(3, "Run",  "Run",      364 * 24 + 19, 1100, 55,  12, <<1>>),
      Activity(4, "Ride", "Ride",     366 * 24 + 9,  3000, 72,  25, <<>>),
      Activity(5, "Hike", "Hike",     378 * 24 + 8,  800,  120, 4,  <<>>),
      Activity(6, "Run",  "Run",      378 * 24 + 17, 500,  20,  15, <<1>>),
      Activity(7, "Run",  "Run",      358 * 24 + 6,  1000, 60,  10, <<>>),
      Activity(8, "Run",  "Run",      365 * 24 + 10, 0,    0,   0,  <<1>>) }

\* activity ids are unique within a fetch
Fetches ==
    UNION { { s \in [1..n -> Pool] :
                \A i, j \in 1..n : i # j => s[i].activity_id # s[j].activity_id }
            : n \in 0..MaxActs }

\* the dates the date input may hold (2024-12-23, 2024-12-30, 2025-01-13)
FilterDates == {357, 364, 378}

\* the multiselect offers the types present in df
TypeChoices(rows) ==
    { sel \in {{}, {"Run"}, {"TrailRun", "Ride"}} :
        sel \subseteq {rows[i].type : i \in 1..Len(rows)} }

----------------------------------------------------------------------------
(* Time-Window Filter *)

\* variant: the date-time, not the date, is compared with the range
FilterMaskDateTime(rows, range, types) ==
    [i \in 1..Len(rows) |->
        /\ rows[i].datetime_local >= range[1] * 24
        /\ rows[i].datetime_local <= range[2] * 24
        /\ (types = {} \/ rows[i].type \in types)]

\* variant: the window ends before the latest activity of the frame
FilterMaskBeforeLatest(rows, range, types) ==
    [i \in 1..Len(rows) |->
        /\ DateOf(rows[i].datetime_local) >= range[1]
        /\ \E j \in 1..Len(rows) :
              DateOf(rows[i].datetime_local) < DateOf(rows[j].datetime_local)
        /\ (types = {} \/ rows[i].type \in types)]

FilterMask(rows, range, types) ==
    [i \in 1..Len(rows) |->
        IF types = {}
        THEN /\ DateOf(rows[i].datetime_local) >= range[1]
             /\ DateOf(rows[i].datetime_local) <= range[2]
        ELSE /\ DateOf(rows[i].datetime_local) >= range[1]
             /\ DateOf(rows[i].datetime_local) <= range[2]
             /\ rows[i].type \in types]

TimeWindowFilter(rows, range, types) ==
    SelectRows(rows, FilterMask(rows, range, types))

----------------------------------------------------------------------------
(* Weekly aggregation *)

GroupKeys(rows) == {IsoCalendar(rows[i].datetime_local) : i \in 1..Len(rows)}

RECURSIVE SortKeys(_)
\* groupby sorts the group keys ascending
SortKeys(S) ==
    IF S = {} THEN <<>>
    ELSE LET m == CHOOSE x \in S : \A y \in S : y = x \/ KeyLt(x, y)
         IN  <<m>> \o SortKeys(S \ {m})

RowsOfKey(rows, key) ==
    {i \in 1..Len(rows) : IsoCalendar(rows[i].datetime_local) = key}

\* variant: the aggregate keeps the largest value of the week, not the sum
GroupWeeklyMax(rows) ==
    LET keys == SortKeys(GroupKeys(rows))
        Largest(f, S) == CHOOSE v \in {f[i] : i \in S} :
                             \A i \in S : f[i] <= v
    IN  [g \in 1..Len(keys) |->
            [Year     |-> keys[g].year,
             Week     |-> keys[g].week,
             Distance |-> Largest([i \in 1..Len(rows) |-> rows[i].distance],
                                  RowsOfKey(rows, keys[g])),
             Time     |-> Largest([i \in 1..Len(rows) |-> rows[i].moving_time],
                                  RowsOfKey(rows, keys[g]))]]

\* groupby([iso year, iso week]).agg({'distance': 'sum', 'moving_time': 'sum'})
GroupWeekly(rows) ==
    LET keys == SortKeys(GroupKeys(rows))
    IN  [g \in 1..Len(keys) |->
            [Year     |-> keys[g].year,
             Week     |-> keys[g].week,
             Distance |-> SumInt([i \in 1..Len(rows) |-> rows[i].distance],
                                 RowsOfKey(rows, keys[g])),
             Time     |-> SumInt([i \in 1..Len(rows) |-> rows[i].moving_time],
                                 RowsOfKey(rows, keys[g]))]]

\* variant: the week after a week with activities gets a row as well when
\* a later week has activities
GroupSizesFilled(rows) ==
    LET present == GroupKeys(rows)
        Following(k) == [year |-> k.year, week |-> k.week + 1]
        keys == SortKeys(present \cup
                    {Following(a) : a \in
                        {k \in present :
                            \E b \in present : KeyLt(Following(k), b)}})
    IN  [g \in 1..Len(keys) |->
            [Year     |-> keys[g].year,
             Week     |-> keys[g].week,
             Sessions |-> Cardinality(RowsOfKey(rows, keys[g]))]]

\* groupby([iso year, iso week]).size()
GroupSizes(rows) ==
    LET keys == SortKeys(GroupKeys(rows))
    IN  [g \in 1..Len(keys) |->
            [Year     |-> keys[g].year,
             Week     |-> keys[g].week,
             Sessions |-> Cardinality(RowsOfKey(rows, keys[g]))]]

\* variant: the change is taken relative to the current week
PctChangeOfCurrent(vals) ==
    [i \in 1..Len(vals) |->
        IF i = 1 THEN NaN
        ELSE Sub(Num(1, 1), Div(Num(vals[i - 1], 1), Num(vals[i], 1)))]

\* Series.pct_change(): data / data.shift(1) - 1, the first entry NaN
PctChange(vals) ==
    [i \in 1..Len(vals) |->
        IF i = 1 THEN NaN
        ELSE Sub(Div(Num(vals[i], 1), Num(vals[i - 1], 1)), Num(1, 1))]

\* weekly_distance with Distance_pct and Time_pct
WithPctColumns(weekly) ==
    LET dp == PctChange([i \in 1..Len(weekly) |-> weekly[i].Distance])
        tp == PctChange([i \in 1..Len(weekly) |-> weekly[i].Time])
    IN  [i \in 1..Len(weekly) |->
            WithColumn(WithColumn(weekly[i], "Distance_pct",
                                  Mul(dp[i], Num(100, 1))),
                       "Time_pct", Mul(tp[i], Num(100, 1)))]

----------------------------------------------------------------------------
(* Reference pace and intensity classification *)

\* pace in min/km; None when the speed is zero
speed_to_pace(speed_kmh) ==
    IF speed_kmh = 0 THEN None ELSE Num(60, speed_kmh)

\* variant: the boundaries fall into the easier zone
label_intensity_exclusive(index) ==
    IF Lt(index, Num(95, 100)) THEN "Alta"
    ELSE IF Lt(index, Num(115, 100)) THEN "Moderada"
    ELSE "Baixa"

label_intensity(index) ==
    IF Le(index, Num(95, 100)) THEN "Alta"
    ELSE IF Le(index, Num(115, 100)) THEN "Moderada"
    ELSE "Baixa"

\* variant: the factors grow with the distance
distance_factors_rising ==
    << [dist |-> 500,  factor |-> Num(95, 100)],
       [dist |-> 1000, factor |-> Num(98, 100)],
       [dist |-> 1500, factor |-> Num(100, 100)],
       [dist |-> 2110, factor |-> Num(103, 100)],
       [dist |-> 4220, factor |-> Num(105, 100)] >>

\* the dict of known race distances (0.01 km) and their factors, in its order
distance_factors ==
    << [dist |-> 500,  factor |-> Num(105, 100)],
       [dist |-> 1000, factor |-> Num(103, 100)],
       [dist |-> 1500, factor |-> Num(100, 100)],
       [dist |-> 2110, factor |-> Num(98, 100)],
       [dist |-> 4220, factor |-> Num(95, 100)] >>

RECURSIVE MinByAbsDiff(_, _, _)
\* min(keys, key=lambda d: abs(d - x)): the first key of the smallest
\* difference, in iteration order; best is the index kept so far
MinByAbsDiff(x, i, best) ==
    IF i > Len(distance_factors) THEN best
    ELSE MinByAbsDiff(x, i + 1,
            IF AbsInt(distance_factors[i].dist - x)
                 < AbsInt(distance_factors[best].dist - x)
            THEN i ELSE best)

RECURSIVE MinByAbsDiffLast(_, _, _)
MinByAbsDiffLast(x, i, best) ==
    IF i > Len(distance_factors) THEN best
    ELSE MinByAbsDiffLast(x, i + 1,
            IF AbsInt(distance_factors[i].dist - x)
                 <= AbsInt(distance_factors[best].dist - x)
            THEN i ELSE best)

\* variant: of two keys equally close, the later (larger) one
closest_dist_last(dist) == distance_factors[MinByAbsDiffLast(dist, 2, 1)]

closest_dist(dist) == distance_factors[MinByAbsDiff(dist, 2, 1)]

adjusted_pace(reference_pace, dist) ==
    Mul(reference_pace, closest_dist(dist).factor)

\* the rows with intensity_index and intensity_zone_pace added
add_intensity_index(rows, reference_pace, dist) ==
    LET adjusted == adjusted_pace(reference_pace, dist)
    IN  [i \in 1..Len(rows) |->
            LET index == Div(rows[i].average_pace, adjusted)
            IN  WithColumn(WithColumn(rows[i], "intensity_index", index),
                           "intensity_zone_pace", label_intensity(index))]

EasyCount(rows) ==
    Cardinality({i \in 1..Len(rows) : rows[i].intensity_zone_pace = "Baixa"})

\* variant: the share is not rounded
compute_easy_percentage_exact(rows) ==
    IF Len(rows) = 0 THEN Num(0, 1)
    ELSE Num(100 * EasyCount(rows), Len(rows))

compute_easy_percentage(rows) ==
    IF Len(rows) = 0 THEN Num(0, 1)
    ELSE Round1(Num(100 * EasyCount(rows), Len(rows)))

\* df_filtered['average_pace'] = df_filtered['average_speed'].apply(speed_to_pace)
WithAveragePace(rows) ==
    [i \in 1..Len(rows) |->
        WithColumn(rows[i], "average_pace",
                   AsFloat(speed_to_pace(rows[i].average_speed)))]

\* variant: every sport is classified
AllSportRows(rows) == rows

\* df_filtered[df_filtered['sport'].isin(['Run', 'Hike'])]
RunHikeRows(rows) ==
    SelectRows(rows, [i \in 1..Len(rows) |-> rows[i].sport \in {"Run", "Hike"}])

\* variant: the race-tagged rows that sort last
RaceCandidatesSlowest(rows) ==
    {i \in 1..Len(rows) :
        /\ rows[i].workout_type = <<1>>
        /\ \A j \in 1..Len(rows) :
              rows[j].workout_type = <<1>>
                 => rows[i].average_speed <= rows[j].average_speed}

\* rows of df_filtered tagged as race that sort first by descending speed
RaceCandidates(rows) ==
    {i \in 1..Len(rows) :
        /\ rows[i].workout_type = <<1>>
        /\ \A j \in 1..Len(rows) :
              rows[j].workout_type = <<1>>
                 => rows[j].average_speed <= rows[i].average_speed}

\* variant: the minutes input has no minimum
ManualRefs_NoMinimum == { <<5, 30, 10>>, <<4, 0, 42>>, <<0, 0, 5>> }

\* manual entries: minutes (2..10), seconds (0..59), distance in km (5..100)
ManualRefs == { <<5, 30, 10>>, <<4, 0, 42>>, <<2, 0, 5>> }

----------------------------------------------------------------------------
(* Volume progression analysis *)

\* variant: the 8-12 percent range of the docstring
IsIdealChange_8_12(p) == Ge(AbsF(p), Num(8, 1)) /\ Le(AbsF(p), Num(12, 1))

IsIdealChange(p) == Ge(AbsF(p), Num(6, 1)) /\ Le(AbsF(p), Num(15, 1))

IsTooLargeChange(p) == Gt(AbsF(p), Num(15, 1))

\* variant: a decrease of more than 10 percent is a recovery week
IsRecoveryWeek_10(p) == Lt(p, Num(-10, 1))

IsRecoveryWeek(p) == Lt(p, Num(-20, 1))

CountTrue(flags) == Cardinality({i \in 1..Len(flags) : flags[i]})

\* variant: the share is taken over the len - 1 transitions
ShareOfTransitions(flags, pct_changes) ==
    Mul(Div(Num(CountTrue(flags), 1), Num(Len(pct_changes) - 1, 1)),
        Num(100, 1))

\* (flags.sum() / len(pct_changes)) * 100
ShareOfChanges(flags, pct_changes) ==
    Mul(Div(Num(CountTrue(flags), 1), Num(Len(pct_changes), 1)), Num(100, 1))

\* variant: the division is not guarded
RecoveryFreqUnguarded(weekly, recovery_weeks) ==
    Div(Num(Len(weekly), 1), Num(CountTrue(recovery_weeks), 1))

\* len(weekly_distance) / (recovery_weeks.sum() if ... > 0 else 1)
RecoveryFreq(weekly, recovery_weeks) ==
    Div(Num(Len(weekly), 1),
        Num(IF CountTrue(recovery_weeks) > 0
            THEN CountTrue(recovery_weeks) ELSE 1, 1))

\* the returned dict, with the three boolean series it is computed from
analyze_volume_progression(weekly) ==
    LET raw  == PctChange([i \in 1..Len(weekly) |-> weekly[i].Distance])
        pct_changes == [i \in 1..Len(weekly) |-> Mul(raw[i], Num(100, 1))]
        ideal_changes     == [i \in 1..Len(weekly) |-> IsIdealChange(pct_changes[i])]
        too_large_changes == [i \in 1..Len(weekly) |-> IsTooLargeChange(pct_changes[i])]
        recovery_weeks    == [i \in 1..Len(weekly) |-> IsRecoveryWeek(pct_changes[i])]
    IN  [ideal_changes     |-> ideal_changes,
         too_large_changes |-> too_large_changes,
         recovery_weeks    |-> recovery_weeks,
         pct_ideal_changes |-> ShareOfChanges(ideal_changes, pct_changes),
         pct_too_large     |-> ShareOfChanges(too_large_changes, pct_changes),
         recovery_freq     |-> RecoveryFreq(weekly, recovery_weeks),
         has_recovery      |-> CountTrue(recovery_weeks) > 0]

NoAnalysis ==
    [ideal_changes |-> <<>>, too_large_changes |-> <<>>,
     recovery_weeks |-> <<>>, pct_ideal_changes |-> None,
     pct_too_large |-> None, recovery_freq |-> None, has_recovery |-> FALSE]

----------------------------------------------------------------------------
(* Longest run of every week *)

\* df_filtered[df_filtered['sport'] == 'Run']
RunRows(rows) ==
    SelectRows(rows, [i \in 1..Len(rows) |-> rows[i].sport = "Run"])

\* x.nlargest(1, 'distance') with keep='first': of the rows of the largest
\* distance, the one that comes first in the frame
NLargest1(rows, S) ==
    CHOOSE i \in S :
        /\ \A j \in S : rows[j].distance <= rows[i].distance
        /\ \A j \in S : rows[j].distance = rows[i].distance => i <= j

\* the longest Run of each week, with the week's Run total and its share
LongestPerWeek(rows) ==
    LET runs == RunRows(rows)
        keys == SortKeys(GroupKeys(runs))
        dist == [i \in 1..Len(runs) |-> runs[i].distance]
    IN  [g \in 1..Len(keys) |->
            LET top   == runs[NLargest1(runs, RowsOfKey(runs, keys[g]))]
                total == SumInt(dist, RowsOfKey(runs, keys[g]))
            IN  WithColumn(WithColumn(top, "weekly_total", total),
                           "percentage",
                           Mul(Div(Num(top.distance, 1), Num(total, 1)),
                               Num(100, 1)))]

----------------------------------------------------------------------------
(* Frequency consistency analysis *)

\* Series.mean(): NaN for an empty column
Mean(vals) == Div(Num(SumInt(vals, 1..Len(vals)), 1), Num(Len(vals), 1))

\* Series.std() ** 2: the sum of squared deviations over n - 1 (ddof = 1),
\* NaN for fewer than two values
Variance(vals) ==
    LET n == Len(vals)
        s == SumInt(vals, 1..n)
        q == SumInt([i \in 1..n |-> vals[i] * vals[i]], 1..n)
    IN  IF n < 2 THEN NaN ELSE Num(n * q - s * s, n * (n - 1))

\* cv = std / mean * 100.  The standard deviation is a square root, so the
\* value is carried by its square: (var / mean^2) * 100^2; cv is never
\* negative for session counts, which are >= 1
CvSquared(vals) ==
    Mul(Div(Variance(vals), Mul(Mean(vals), Mean(vals))), Num(10000, 1))

Occurrences(vals, v) == Cardinality({i \in 1..Len(vals) : vals[i] = v})

\* Series.mode(): the values that occur most often
Modes(vals) ==
    LET values == {vals[i] : i \in 1..Len(vals)}
    IN  {v \in values :
            \A w \in values : Occurrences(vals, w) <= Occurrences(vals, v)}

\* variant: the last of the sorted modes
FirstModeLargest(vals) ==
    CHOOSE v \in Modes(vals) : \A w \in Modes(vals) : w <= v

\* Series.mode()[0]: mode() returns the modes sorted ascending
FirstMode(vals) ==
    CHOOSE v \in Modes(vals) : \A w \in Modes(vals) : v <= w

\* the returned dict, for a table of at least one week
analyze_frequency_consistency(sessions) ==
    LET vals == [i \in 1..Len(sessions) |-> sessions[i].Sessions]
        mode_sessions == FirstMode(vals)
    IN  [cv_squared     |-> CvSquared(vals),
         mode_sessions  |-> mode_sessions,
         pct_consistent |-> Mul(Div(Num(Occurrences(vals, mode_sessions), 1),
                                    Num(Len(vals), 1)),
                                Num(100, 1))]

NoFrequencyAnalysis ==
    [cv_squared |-> None, mode_sessions |-> 0, pct_consistent |-> None]

----------------------------------------------------------------------------
(* Intensity distribution analysis and the boxes of the training summary *)

\* the returned dict, for at least one intensity row
analyze_intensity_distribution(rows) ==
    LET easy == Mul(Div(Num(EasyCount(rows), 1), Num(Len(rows), 1)),
                    Num(100, 1))
    IN  [easy_percentage |-> easy,
         deviation       |-> AbsF(Sub(easy, Num(80, 1)))]

NoIntensityAnalysis == [easy_percentage |-> None, deviation |-> None]

VolumeVerdict(va) ==
    IF Gt(va.pct_too_large, Num(50, 1)) THEN "too_large" ELSE "gradual"

\* variant: a frequency of exactly 2 is not good
RecoveryVerdict_Above2(va) ==
    IF ~va.has_recovery THEN "no_recovery"
    ELSE IF Le(va.recovery_freq, Num(2, 1)) THEN "inconsistent"
    ELSE IF Gt(va.recovery_freq, Num(5, 1)) THEN "too_rare"
    ELSE "included"

RecoveryVerdict(va) ==
    IF ~va.has_recovery THEN "no_recovery"
    ELSE IF Lt(va.recovery_freq, Num(2, 1)) THEN "inconsistent"
    ELSE IF Gt(va.recovery_freq, Num(5, 1)) THEN "too_rare"
    ELSE "included"

\* variant: a CV of exactly 25 counts as consistent
IsConsistent_Le(cv_squared) == Le(cv_squared, Num(625, 1))

\* frequency_analysis['cv'] < 25, on the square
IsConsistent(cv_squared) == Lt(cv_squared, Num(625, 1))

FrequencyVerdict(fa) ==
    IF IsConsistent(fa.cv_squared) THEN "consistent" ELSE "irregular"

IntensityVerdict(ia) ==
    IF Le(AbsF(ia.deviation), Num(10, 1)) THEN "good"
    ELSE IF Lt(ia.easy_percentage, Num(70, 1)) THEN "too_intense"
    ELSE "unbalanced"

NoVerdicts ==
    [volume |-> "", recovery |-> "", frequency |-> "", intensity |-> ""]

\* get_activities is not running
NoResponse == [status |-> 0, body |-> <<>>]

NoServer == [pages |-> <<>>, behaviour |-> "", retry_after |-> 0, latency |-> 0]

----------------------------------------------------------------------------
(* The run of the analysis page (main) *)

\* main starts: the app_open event is logged; the session may hold a token
Init ==
    /\ pc = "token"
    /\ access_token \in {"", "token"}
    /\ session_log = <<"app_open">>
    /\ warnings = {}
    /\ df = <<>>
    /\ date_range = <<0, 0>>
    /\ selected_activity_type = {}
    /\ df_filtered = <<>>
    /\ weekly_distance = <<>>
    /\ weekly_sessions = <<>>
    /\ race_pace = None
    /\ race_distance = 0
    /\ adjusted_reference_pace = None
    /\ df_intensity = <<>>
    /\ easy_percentage = None
    /\ volume_analysis = NoAnalysis
    /\ activities = <<>>
    /\ longest_runs = <<>>
    /\ frequency_analysis = NoFrequencyAnalysis
    /\ intensity_analysis = NoIntensityAnalysis
    /\ verdicts = NoVerdicts
    /\ selection = ""
    /\ page = 1
    /\ requests_in_window = 0
    /\ daily_requests = 0
    /\ window_start = 0
    /\ now = 0
    /\ wait_time = 0
    /\ response = NoResponse
    /\ server = NoServer

\* no token in the session: a stored token is refreshed and the script
\* reruns, or the page asks to connect and stops
NoToken ==
    /\ pc = "token"
    /\ access_token = ""
    /\ \E fresh_token \in {"", "token"} :
          IF fresh_token # ""
          THEN /\ access_token' = fresh_token
               /\ pc' = "token"
               /\ UNCHANGED warnings
          ELSE /\ warnings' = warnings \cup {"connect"}
               /\ pc' = "stopped"
               /\ UNCHANGED access_token
    /\ UNCHANGED <<df, date_range, selected_activity_type, df_filtered,
                   weekly_distance, weekly_sessions, race_pace, race_distance,
                   adjusted_reference_pace, df_intensity, easy_percentage,
                   volume_analysis, activities, longest_runs,
                   frequency_analysis, intensity_analysis, verdicts,
                   selection, session_log>>
    /\ UNCHANGED fetchVars

\* activities = get_activities(access_token); a non-empty list is logged
\* and becomes df (df = <<>> stands for the empty list, df is not bound then)
GetActivities ==
    /\ pc = "token"
    /\ access_token # ""
    /\ \E fetched \in Fetches :
          /\ df' = fetched
          /\ session_log' = IF fetched # <<>>
                            THEN Append(session_log, "data_load")
                            ELSE session_log
    /\ pc' = "start"
    /\ UNCHANGED <<date_range, selected_activity_type, df_filtered,
                   weekly_distance, weekly_sessions, race_pace, race_distance,
                   adjusted_reference_pace, df_intensity, easy_percentage,
                   volume_analysis, activities, longest_runs,
                   frequency_analysis, intensity_analysis, verdicts,
                   selection, access_token, warnings>>
    /\ UNCHANGED fetchVars

\* get_activities returned nothing: the failed load is logged, the warning
\* is shown, df is never bound, and the test "df is not None" that follows
\* raises
NoActivities ==
    /\ pc = "start"
    /\ df = <<>>
    /\ session_log' = Append(session_log, "data_load_failed")
    /\ warnings' = warnings \cup {"no_activities"}
    /\ pc' = "error"
    /\ UNCHANGED access_token
    /\ UNCHANGED <<df, date_range, selected_activity_type, df_filtered,
                   weekly_distance, weekly_sessions, race_pace, race_distance,
                   adjusted_reference_pace, df_intensity, easy_percentage,
                   volume_analysis>>
    /\ UNCHANGED <<activities, longest_runs, frequency_analysis,
                   intensity_analysis, verdicts, selection>>
    /\ UNCHANGED fetchVars

\* the submitted form sets the session state, the rerun filters with it
Filter ==
    /\ pc = "start"
    /\ df # <<>>
    /\ \E start \in FilterDates, end \in FilterDates, types \in TypeChoices(df) :
          /\ date_range' = <<start, end>>
          /\ selected_activity_type' = types
          /\ df_filtered' = TimeWindowFilter(df, <<start, end>>, types)
    /\ pc' = "volume"
    /\ UNCHANGED <<df, weekly_distance, weekly_sessions, race_pace,
                   race_distance, adjusted_reference_pace, df_intensity,
                   easy_percentage, volume_analysis>>
    /\ UNCHANGED <<activities, longest_runs, frequency_analysis,
                   intensity_analysis, verdicts, selection>>
    /\ UNCHANGED fetchVars
    /\ UNCHANGED sessionVars

\* the weekly table and its percentage changes
WeeklyDistance ==
    /\ pc = "volume"
    /\ weekly_distance' = WithPctColumns(GroupWeekly(df_filtered))
    /\ pc' = "longest_runs"
    /\ UNCHANGED <<df, date_range, selected_activity_type, df_filtered,
                   weekly_sessions, race_pace, race_distance,
                   adjusted_reference_pace, df_intensity, easy_percentage,
                   volume_analysis>>
    /\ UNCHANGED <<activities, longest_runs, frequency_analysis,
                   intensity_analysis, verdicts, selection>>
    /\ UNCHANGED fetchVars
    /\ UNCHANGED sessionVars

\* with no row, the Week_Label column cannot be set from the frame that
\* apply returns for an empty table (pandas >= 1.5); older versions go on
WeeklyDistanceRaises ==
    /\ pc = "volume"
    /\ df_filtered = <<>>
    /\ pc' = "error"
    /\ UNCHANGED <<df, date_range, selected_activity_type, df_filtered,
                   weekly_distance, weekly_sessions, race_pace, race_distance,
                   adjusted_reference_pace, df_intensity, easy_percentage,
                   volume_analysis>>
    /\ UNCHANGED <<activities, longest_runs, frequency_analysis,
                   intensity_analysis, verdicts, selection>>
    /\ UNCHANGED fetchVars
    /\ UNCHANGED sessionVars

\* the longest Run of every week against the week's Run total
LongestRuns ==
    /\ pc = "longest_runs"
    /\ longest_runs' = LongestPerWeek(df_filtered)
    /\ pc' = "frequency"
    /\ UNCHANGED <<df, date_range, selected_activity_type, df_filtered,
                   weekly_distance, weekly_sessions, race_pace, race_distance,
                   adjusted_reference_pace, df_intensity, easy_percentage,
                   volume_analysis, activities, frequency_analysis,
                   intensity_analysis, verdicts, selection>>
    /\ UNCHANGED fetchVars
    /\ UNCHANGED sessionVars

\* sessions per week; mode()[0] of an empty column raises
WeeklySessions ==
    /\ pc = "frequency"
    /\ weekly_sessions' = GroupSizes(df_filtered)
    /\ pc' = IF df_filtered = <<>> THEN "error" ELSE "reference"
    /\ UNCHANGED <<df, date_range, selected_activity_type, df_filtered,
                   weekly_distance, race_pace, race_distance,
                   adjusted_reference_pace, df_intensity, easy_percentage,
                   volume_analysis>>
    /\ UNCHANGED <<activities, longest_runs, frequency_analysis,
                   intensity_analysis, verdicts, selection>>
    /\ UNCHANGED fetchVars
    /\ UNCHANGED sessionVars

\* the detected race, the manual entry, and the radio choice between them;
\* formatting the pace of a detected race of speed 0 (60/x) raises
Reference ==
    /\ pc = "reference"
    /\ IF \E i \in RaceCandidates(df_filtered) :
              df_filtered[i].average_speed = 0
       THEN /\ pc' = "error"
            /\ UNCHANGED <<race_pace, race_distance, selection>>
       ELSE /\ \E manual \in ManualRefs,
                  detected \in BOOLEAN :
                  IF detected
                  THEN \E i \in RaceCandidates(df_filtered) :
                         /\ speed_to_pace(df_filtered[i].average_speed) # None
                         /\ race_pace' =
                               speed_to_pace(df_filtered[i].average_speed)
                         /\ race_distance' = df_filtered[i].distance
                         /\ selection' = "detected"
                  ELSE /\ race_pace' = Num(60 * manual[1] + manual[2], 60)
                       /\ race_distance' = 100 * manual[3]
                       /\ selection' = "manual"
            /\ pc' = "intensity"
    /\ UNCHANGED <<df, date_range, selected_activity_type, df_filtered,
                   weekly_distance, weekly_sessions, adjusted_reference_pace,
                   df_intensity, easy_percentage, volume_analysis>>
    /\ UNCHANGED <<activities, longest_runs, frequency_analysis,
                   intensity_analysis, verdicts>>
    /\ UNCHANGED fetchVars
    /\ UNCHANGED sessionVars

\* the pace column, the index and zone of the Run and Hike rows, the share
\* of low-intensity sessions
Intensity ==
    /\ pc = "intensity"
    /\ df_filtered' = WithAveragePace(df_filtered)
    /\ adjusted_reference_pace' = adjusted_pace(race_pace, race_distance)
    /\ df_intensity' = add_intensity_index(RunHikeRows(df_filtered'),
                                           race_pace, race_distance)
    /\ easy_percentage' = compute_easy_percentage(df_intensity')
    /\ pc' = "summary"
    /\ UNCHANGED <<df, date_range, selected_activity_type, weekly_distance,
                   weekly_sessions, race_pace, race_distance, volume_analysis>>
    /\ UNCHANGED <<activities, longest_runs, frequency_analysis,
                   intensity_analysis, verdicts, selection>>
    /\ UNCHANGED fetchVars
    /\ UNCHANGED sessionVars

\* display_training_summary: the volume analysis, the frequency analysis,
\* then the intensity analysis, which divides by the number of intensity
\* rows (two Python ints), then the boxes
Summary ==
    /\ pc = "summary"
    /\ volume_analysis' = analyze_volume_progression(weekly_distance)
    /\ frequency_analysis' = analyze_frequency_consistency(weekly_sessions)
    /\ IF Len(df_intensity) = 0
       THEN /\ pc' = "error"
            /\ UNCHANGED <<intensity_analysis, verdicts, session_log>>
       ELSE /\ intensity_analysis' = analyze_intensity_distribution(df_intensity)
            /\ verdicts' =
                  [volume    |-> VolumeVerdict(volume_analysis'),
                   recovery  |-> RecoveryVerdict(volume_analysis'),
                   frequency |-> FrequencyVerdict(frequency_analysis'),
                   intensity |-> IntensityVerdict(intensity_analysis')]
            /\ session_log' = Append(session_log, "analysis_performed")
            /\ pc' = "done"
    /\ UNCHANGED <<df, date_range, selected_activity_type, df_filtered,
                   weekly_distance, weekly_sessions, race_pace, race_distance,
                   adjusted_reference_pace, df_intensity, easy_percentage,
                   activities, longest_runs, selection, access_token,
                   warnings>>
    /\ UNCHANGED fetchVars

Next ==
    \/ NoToken
    \/ GetActivities
    \/ NoActivities
    \/ Filter
    \/ WeeklyDistance
    \/ WeeklyDistanceRaises
    \/ LongestRuns
    \/ WeeklySessions
    \/ Reference
    \/ Intensity
    \/ Summary

Spec == Init /\ [][Next]_vars

----------------------------------------------------------------------------
(* add_intensity_index and compute_easy_percentage on their own: the paces *)
(* (min/km) and the reference are drawn directly                           *)

\* 4:40, 4:45, 4:46, 5:45, 5:46 min/km, and the NaN of a row without speed
PaceValues ==
    { Num(280, 60), Num(285, 60), Num(286, 60), Num(345, 60), Num(346, 60),
      NaN }

\* 4:30 and 5:00 min/km
ReferencePaces == { Num(270, 60), Num(300, 60) }

\* the five table distances, the four midpoints between them, and
\* distances off the table (0.01 km)
ReferenceDistances ==
    { 500, 750, 1000, 1250, 1500, 1805, 2110, 3165, 4220, 300, 1249, 10000 }

PaceRows ==
    UNION { [1..n -> {[average_pace |-> p] : p \in PaceValues}]
            : n \in 0..MaxRecs }

InitIntensity ==
    /\ pc = "add_intensity_index"
    /\ df = <<>>
    /\ date_range = <<0, 0>>
    /\ selected_activity_type = {}
    /\ df_filtered = <<>>
    /\ weekly_distance = <<>>
    /\ weekly_sessions = <<>>
    /\ race_pace \in ReferencePaces
    /\ race_distance \in ReferenceDistances
    /\ adjusted_reference_pace = None
    /\ df_intensity \in PaceRows
    /\ easy_percentage = None
    /\ volume_analysis = NoAnalysis
    /\ activities = <<>>
    /\ longest_runs = <<>>
    /\ frequency_analysis = NoFrequencyAnalysis
    /\ intensity_analysis = NoIntensityAnalysis
    /\ verdicts = NoVerdicts
    /\ selection = ""
    /\ access_token = ""
    /\ session_log = <<>>
    /\ warnings = {}
    /\ page = 1
    /\ requests_in_window = 0
    /\ daily_requests = 0
    /\ window_start = 0
    /\ now = 0
    /\ wait_time = 0
    /\ response = NoResponse
    /\ server = NoServer

AddIntensityIndex ==
    /\ pc = "add_intensity_index"
    /\ adjusted_reference_pace' = adjusted_pace(race_pace, race_distance)
    /\ df_intensity' = add_intensity_index(df_intensity, race_pace, race_distance)
    /\ pc' = "compute_easy_percentage"
    /\ UNCHANGED <<df, date_range, selected_activity_type, df_filtered,
                   weekly_distance, weekly_sessions, race_pace, race_distance,
                   easy_percentage, volume_analysis>>
    /\ UNCHANGED <<activities, longest_runs, frequency_analysis,
                   intensity_analysis, verdicts, selection>>
    /\ UNCHANGED fetchVars
    /\ UNCHANGED sessionVars

ComputeEasyPercentage ==
    /\ pc = "compute_easy_percentage"
    /\ easy_percentage' = compute_easy_percentage(df_intensity)
    /\ pc' = "classified"
    /\ UNCHANGED <<df, date_range, selected_activity_type, df_filtered,
                   weekly_distance, weekly_sessions, race_pace, race_distance,
                   adjusted_reference_pace, df_intensity, volume_analysis>>
    /\ UNCHANGED <<activities, longest_runs, frequency_analysis,
                   intensity_analysis, verdicts, selection>>
    /\ UNCHANGED fetchVars
    /\ UNCHANGED sessionVars

NextIntensity == AddIntensityIndex \/ ComputeEasyPercentage

SpecIntensity == InitIntensity /\ [][NextIntensity]_vars

----------------------------------------------------------------------------
(* The percentage changes and analyze_volume_progression on their own: the *)
(* weekly table is drawn directly                                          *)

\* weekly distances; 100 -> 106, 115, 85, 80 are the changes of exactly
\* 6, 15, -15 and -20 percent
WeeklyDistances == {0, 40, 80, 85, 95, 100, 105, 106, 115}

MaxLongWeeks == 6

\* weekly totals of the longer tables: steady weeks and a drop of 60 percent
LongWeeklyDistances == {40, 100, 105}

\* tables of up to MaxWeeks weeks, and longer ones of fewer totals
WeeklyTables ==
    UNION { [1..n -> {[Year |-> 2025, Week |-> 0, Distance |-> d, Time |-> 60]
                        : d \in WeeklyDistances}]
            : n \in 0..MaxWeeks }
    \cup
    UNION { [1..n -> {[Year |-> 2025, Week |-> 0, Distance |-> d, Time |-> 60]
                        : d \in LongWeeklyDistances}]
            : n \in (MaxWeeks + 1)..MaxLongWeeks }

\* week i of the table is ISO week i + 1 of 2025
Numbered(table) ==
    [i \in 1..Len(table) |-> [table[i] EXCEPT !.Week = i + 1]]

InitVolume ==
    /\ pc = "pct_change"
    /\ df = <<>>
    /\ date_range = <<0, 0>>
    /\ selected_activity_type = {}
    /\ df_filtered = <<>>
    /\ \E t \in WeeklyTables : weekly_distance = Numbered(t)
    /\ weekly_sessions = <<>>
    /\ race_pace = None
    /\ race_distance = 0
    /\ adjusted_reference_pace = None
    /\ df_intensity = <<>>
    /\ easy_percentage = None
    /\ volume_analysis = NoAnalysis
    /\ activities = <<>>
    /\ longest_runs = <<>>
    /\ frequency_analysis = NoFrequencyAnalysis
    /\ intensity_analysis = NoIntensityAnalysis
    /\ verdicts = NoVerdicts
    /\ selection = ""
    /\ access_token = ""
    /\ session_log = <<>>
    /\ warnings = {}
    /\ page = 1
    /\ requests_in_window = 0
    /\ daily_requests = 0
    /\ window_start = 0
    /\ now = 0
    /\ wait_time = 0
    /\ response = NoResponse
    /\ server = NoServer

PctChangeColumns ==
    /\ pc = "pct_change"
    /\ weekly_distance' = WithPctColumns(weekly_distance)
    /\ pc' = "analyze_volume_progression"
    /\ UNCHANGED <<df, date_range, selected_activity_type, df_filtered,
                   weekly_sessions, race_pace, race_distance,
                   adjusted_reference_pace, df_intensity, easy_percentage,
                   volume_analysis>>
    /\ UNCHANGED <<activities, longest_runs, frequency_analysis,
                   intensity_analysis, verdicts, selection>>
    /\ UNCHANGED fetchVars
    /\ UNCHANGED sessionVars

AnalyzeVolume ==
    /\ pc = "analyze_volume_progression"
    /\ volume_analysis' = analyze_volume_progression(weekly_distance)
    /\ pc' = "analyzed"
    /\ UNCHANGED <<df, date_range, selected_activity_type, df_filtered,
                   weekly_distance, weekly_sessions, race_pace, race_distance,
                   adjusted_reference_pace, df_intensity, easy_percentage>>
    /\ UNCHANGED <<activities, longest_runs, frequency_analysis,
                   intensity_analysis, verdicts, selection>>
    /\ UNCHANGED fetchVars
    /\ UNCHANGED sessionVars

\* the volume box of display_training_summary
VolumeBox ==
    /\ pc = "analyzed"
    /\ verdicts' = [verdicts EXCEPT
                        !.volume = VolumeVerdict(volume_analysis),
                        !.recovery = RecoveryVerdict(volume_analysis)]
    /\ pc' = "judged"
    /\ UNCHANGED <<df, date_range, selected_activity_type, df_filtered,
                   weekly_distance, weekly_sessions, race_pace, race_distance,
                   adjusted_reference_pace, df_intensity, easy_percentage,
                   volume_analysis, activities, longest_runs,
                   frequency_analysis, intensity_analysis, selection>>
    /\ UNCHANGED fetchVars
    /\ UNCHANGED sessionVars

NextVolume == PctChangeColumns \/ AnalyzeVolume \/ VolumeBox

SpecVolume == InitVolume /\ [][NextVolume]_vars

----------------------------------------------------------------------------
(* analyze_frequency_consistency and the frequency box of the summary on   *)
(* their own: the table of weekly sessions is drawn directly               *)

MaxSessionWeeks == 5

\* sessions of a week that has any activity
SessionCounts == {1, 3, 4, 5}

\* week i of the table is ISO week i + 1 of 2025
SessionTables ==
    UNION { { [i \in 1..n |-> [Year |-> 2025, Week |-> i + 1, Sessions |-> c[i]]]
                : c \in [1..n -> SessionCounts] }
            : n \in 0..MaxSessionWeeks }

InitFrequency ==
    /\ pc = "analyze_frequency_consistency"
    /\ df = <<>>
    /\ date_range = <<0, 0>>
    /\ selected_activity_type = {}
    /\ df_filtered = <<>>
    /\ weekly_distance = <<>>
    /\ weekly_sessions \in SessionTables
    /\ race_pace = None
    /\ race_distance = 0
    /\ adjusted_reference_pace = None
    /\ df_intensity = <<>>
    /\ easy_percentage = None
    /\ volume_analysis = NoAnalysis
    /\ activities = <<>>
    /\ longest_runs = <<>>
    /\ frequency_analysis = NoFrequencyAnalysis
    /\ intensity_analysis = NoIntensityAnalysis
    /\ verdicts = NoVerdicts
    /\ selection = ""
    /\ access_token = ""
    /\ session_log = <<>>
    /\ warnings = {}
    /\ page = 1
    /\ requests_in_window = 0
    /\ daily_requests = 0
    /\ window_start = 0
    /\ now = 0
    /\ wait_time = 0
    /\ response = NoResponse
    /\ server = NoServer

\* mode()[0] of an empty column raises
AnalyzeFrequency ==
    /\ pc = "analyze_frequency_consistency"
    /\ IF weekly_sessions = <<>>
       THEN /\ pc' = "error"
            /\ UNCHANGED frequency_analysis
       ELSE /\ frequency_analysis' = analyze_frequency_consistency(weekly_sessions)
            /\ pc' = "frequency_box"
    /\ UNCHANGED <<df, date_range, selected_activity_type, df_filtered,
                   weekly_distance, weekly_sessions, race_pace, race_distance,
                   adjusted_reference_pace, df_intensity, easy_percentage,
                   volume_analysis, activities, longest_runs,
                   intensity_analysis, verdicts, selection>>
    /\ UNCHANGED fetchVars
    /\ UNCHANGED sessionVars

FrequencyBox ==
    /\ pc = "frequency_box"
    /\ verdicts' = [verdicts EXCEPT
                        !.frequency = FrequencyVerdict(frequency_analysis)]
    /\ pc' = "judged"
    /\ UNCHANGED <<df, date_range, selected_activity_type, df_filtered,
                   weekly_distance, weekly_sessions, race_pace, race_distance,
                   adjusted_reference_pace, df_intensity, easy_percentage,
                   volume_analysis, activities, longest_runs,
                   frequency_analysis, intensity_analysis, selection>>
    /\ UNCHANGED fetchVars
    /\ UNCHANGED sessionVars

NextFrequency == AnalyzeFrequency \/ FrequencyBox

SpecFrequency == InitFrequency /\ [][NextFrequency]_vars

----------------------------------------------------------------------------
(* The normalisation at the end of get_activities on its own: the raw      *)
(* records are drawn directly.  Raw units: distance in metres, moving_time *)
(* in seconds, average_speed in metres per second.                         *)

MaxRaw == 3

\* keys read with activity[...]; the others are read with activity.get(...)
RequiredKeys ==
    {"athlete", "id", "name", "type", "sport_type", "start_date_local",
     "distance", "moving_time", "elapsed_time", "total_elevation_gain",
     "average_speed", "max_speed"}

\* the raw record of which a is the normalized form
RawOf(a) ==
    [keys             |-> RequiredKeys \cup
                             (IF a.workout_type = <<>> THEN {}
                              ELSE {"workout_type"}),
     id               |-> a.activity_id,
     type             |-> a.sport,
     sport_type       |-> a.type,
     start_date_local |-> a.datetime_local,
     distance         |-> 10 * a.distance,
     moving_time      |-> 60 * a.moving_time,
     average_speed    |-> Num(10 * a.average_speed, 36),
     workout_type     |-> a.workout_type]

Without(raw, key) == [raw EXCEPT !.keys = @ \ {key}]

\* complete records, and records that lack an identity field, a core
\* measurement or an optional field
RawPool ==
    LET complete == {RawOf(a) : a \in {b \in Pool : b.activity_id \in {1, 3, 4, 5}}}
    IN  complete
        \cup {Without(r, "id") : r \in {c \in complete : c.id = 1}}
        \cup {Without(r, "distance") : r \in {c \in complete : c.id = 4}}
        \cup {Without(r, "workout_type") : r \in {c \in complete : c.id = 3}}

RawBatches ==
    UNION { { s \in [1..n -> RawPool] :
                \A i, j \in 1..n : i # j => s[i].id # s[j].id }
            : n \in 0..MaxRaw }

\* one dict of activity_data: km in units of 0.01, minutes, km/h
NormalizeOne(raw) ==
    Activity(raw.id, raw.type, raw.sport_type, raw.start_date_local,
             raw.distance \div 10, raw.moving_time \div 60,
             Mul(raw.average_speed, Num(36, 10)).n,
             IF "workout_type" \in raw.keys THEN raw.workout_type ELSE <<>>)

InitNormalize ==
    /\ pc = "normalize"
    /\ df = <<>>
    /\ date_range = <<0, 0>>
    /\ selected_activity_type = {}
    /\ df_filtered = <<>>
    /\ weekly_distance = <<>>
    /\ weekly_sessions = <<>>
    /\ race_pace = None
    /\ race_distance = 0
    /\ adjusted_reference_pace = None
    /\ df_intensity = <<>>
    /\ easy_percentage = None
    /\ volume_analysis = NoAnalysis
    /\ activities \in RawBatches
    /\ longest_runs = <<>>
    /\ frequency_analysis = NoFrequencyAnalysis
    /\ intensity_analysis = NoIntensityAnalysis
    /\ verdicts = NoVerdicts
    /\ selection = ""
    /\ access_token = ""
    /\ session_log = <<>>
    /\ warnings = {}
    /\ page = 1
    /\ requests_in_window = 0
    /\ daily_requests = 0
    /\ window_start = 0
    /\ now = 0
    /\ wait_time = 0
    /\ response = NoResponse
    /\ server = NoServer

\* the loop over the raw records: activity[key] of an absent key raises
\* KeyError, which nothing catches
Normalize ==
    /\ pc = "normalize"
    /\ IF \E i \in 1..Len(activities) : ~(RequiredKeys \subseteq activities[i].keys)
       THEN /\ pc' = "error"
            /\ UNCHANGED df
       ELSE /\ df' = [i \in 1..Len(activities) |-> NormalizeOne(activities[i])]
            /\ pc' = "normalized"
    /\ UNCHANGED <<date_range, selected_activity_type, df_filtered,
                   weekly_distance, weekly_sessions, race_pace, race_distance,
                   adjusted_reference_pace, df_intensity, easy_percentage,
                   volume_analysis, activities, longest_runs,
                   frequency_analysis, intensity_analysis, verdicts,
                   selection>>
    /\ UNCHANGED fetchVars
    /\ UNCHANGED sessionVars

NextNormalize == Normalize

SpecNormalize == InitNormalize /\ [][NextNormalize]_vars

----------------------------------------------------------------------------
(* get_activities on its own: the fetch loop against a server, then the    *)
(* normalisation.  Times are seconds after daily_start, the midnight (UTC) *)
(* of the day whose requests are counted.                                  *)

MaxPages == 2

WindowSeconds == 900

WindowLimit == 100

DailyLimit == 1000

DefaultRetryAfter == 60

\* current_time.date() > daily_start.date(): a day after daily_start or more
DaySeconds == 86400

PoolActivity(id) == CHOOSE a \in Pool : a.activity_id = id

\* the pages of the longest history, oldest page last
FullPages ==
    << <<RawOf(PoolActivity(6)), RawOf(PoolActivity(5))>>,
       <<RawOf(PoolActivity(4))>>,
       <<RawOf(PoolActivity(3)), RawOf(PoolActivity(1))>> >>

Histories == {SubSeq(FullPages, 1, n) : n \in 0..MaxPages}

\* how the server answers: always 200; always 429; 429 and 200 in turn; 500
\* for page 2; a connection error for page 2
Behaviours == {"ok", "always_429", "alternate", "error_page2", "raise_page2"}

\* Retry-After (seconds; 60 is also what a missing header gives) and the
\* seconds a request takes
ServerTimings ==
    { <<DefaultRetryAfter, 0>>, <<90, 10>>, <<1, 0>>, <<1, 10>> }

Servers ==
    { [pages |-> h, behaviour |-> b, retry_after |-> t[1], latency |-> t[2]] :
        h \in Histories, b \in Behaviours, t \in ServerTimings }

\* the time of day, in seconds, at which get_activities starts
StartTimes == {0, 72000}

\* the status of the answer to a request for page p (-1: requests.get raises)
StatusOf(srv, p, previous) ==
    CASE srv.behaviour = "always_429" -> 429
      [] srv.behaviour = "alternate" ->
            (IF previous.status = 429 THEN 200 ELSE 429)
      [] srv.behaviour = "error_page2" -> (IF p = 2 THEN 500 ELSE 200)
      [] srv.behaviour = "raise_page2" -> (IF p = 2 THEN -1 ELSE 200)
      [] OTHER -> 200

\* response.json() for page p: the empty list after the last page
BodyOf(srv, p) == IF p <= Len(srv.pages) THEN srv.pages[p] ELSE <<>>

\* (current_time - window_start).total_seconds() > 900
WindowExpired(current_time, start) == current_time - start > WindowSeconds

\* variant: the window is full only above the limit
WindowFull_Above(n) == n > WindowLimit

\* requests_in_window >= 100
WindowFull(n) == n >= WindowLimit

\* 900 - (current_time - window_start).total_seconds()
WaitTime(current_time, start) == WindowSeconds - (current_time - start)

\* daily_requests >= 1000
DailyFull(n) == n >= DailyLimit

\* variant: the page advances after every answer
PageAfter_Always(p, status, body) == p + 1

\* page += 1 after a 200 with a non-empty body, the same page otherwise
PageAfter(p, status, body) ==
    IF status = 200 /\ body # <<>> THEN p + 1 ELSE p

InitFetch ==
    /\ pc = "check"
    /\ df = <<>>
    /\ date_range = <<0, 0>>
    /\ selected_activity_type = {}
    /\ df_filtered = <<>>
    /\ weekly_distance = <<>>
    /\ weekly_sessions = <<>>
    /\ race_pace = None
    /\ race_distance = 0
    /\ adjusted_reference_pace = None
    /\ df_intensity = <<>>
    /\ easy_percentage = None
    /\ volume_analysis = NoAnalysis
    /\ activities = <<>>
    /\ longest_runs = <<>>
    /\ frequency_analysis = NoFrequencyAnalysis
    /\ intensity_analysis = NoIntensityAnalysis
    /\ verdicts = NoVerdicts
    /\ selection = ""
    /\ access_token = "token"
    /\ session_log = <<>>
    /\ warnings = {}
    /\ page = 1
    /\ requests_in_window = 0
    /\ daily_requests = 0
    /\ now \in StartTimes
    /\ window_start = now
    /\ wait_time = 0
    /\ response = NoResponse
    /\ server \in Servers

\* the top of the loop: the window and the day are reset when they are over,
\* a full window is waited out, a full day ends the loop
CheckLimits ==
    /\ pc = "check"
    /\ LET current_time == now
           expired   == WindowExpired(current_time, window_start)
           in_window == IF expired THEN 0 ELSE requests_in_window
           start     == IF expired THEN current_time ELSE window_start
           new_day   == current_time >= DaySeconds
           midnight  == IF new_day
                        THEN (current_time \div DaySeconds) * DaySeconds
                        ELSE 0
           in_day    == IF new_day THEN 0 ELSE daily_requests
           full      == WindowFull(in_window)
           wait      == WaitTime(current_time, start)
       IN  /\ wait_time' = IF full THEN wait ELSE wait_time
           /\ now' = (IF full THEN current_time + wait ELSE current_time)
                        - midnight
           /\ window_start' = (IF full THEN current_time + wait ELSE start)
                                 - midnight
           /\ requests_in_window' = IF full THEN 0 ELSE in_window
           /\ daily_requests' = in_day
           /\ pc' = IF DailyFull(in_day) THEN "normalize" ELSE "request"
    /\ UNCHANGED <<df, date_range, selected_activity_type, df_filtered,
                   weekly_distance, weekly_sessions, race_pace, race_distance,
                   adjusted_reference_pace, df_intensity, easy_percentage,
                   volume_analysis, activities, longest_runs,
                   frequency_analysis, intensity_analysis, verdicts,
                   selection, page, response, server>>
    /\ UNCHANGED sessionVars

\* the request for the current page and what its answer leads to
Request ==
    /\ pc = "request"
    /\ LET status == StatusOf(server, page, response)
           body   == IF status = 200 THEN BodyOf(server, page) ELSE <<>>
       IN  /\ response' = [status |-> status, body |-> body]
           /\ requests_in_window' =
                 IF status = -1 THEN requests_in_window
                 ELSE requests_in_window + 1
           /\ daily_requests' =
                 IF status = -1 THEN daily_requests ELSE daily_requests + 1
           /\ now' = now + server.latency
                        + (IF status = 429 THEN server.retry_after ELSE 0)
           /\ activities' = IF status = 200 THEN activities \o body
                            ELSE activities
           /\ page' = PageAfter(page, status, body)
           /\ pc' = IF status = 429 \/ (status = 200 /\ body # <<>>)
                    THEN "check" ELSE "normalize"
    /\ UNCHANGED <<df, date_range, selected_activity_type, df_filtered,
                   weekly_distance, weekly_sessions, race_pace, race_distance,
                   adjusted_reference_pace, df_intensity, easy_percentage,
                   volume_analysis, longest_runs, frequency_analysis,
                   intensity_analysis, verdicts, selection, window_start,
                   wait_time, server>>
    /\ UNCHANGED sessionVars

NextFetch == CheckLimits \/ Request \/ Normalize

SpecFetch == InitFetch /\ [][NextFetch]_vars

\* the loop is not suspended forever: every sleep ends
SpecFetchFair == SpecFetch /\ WF_vars(NextFetch)

----------------------------------------------------------------------------
(* Properties of the intensity classification (SpecIntensity) *)

Classified == pc \in {"compute_easy_percentage", "classified"}

\* C1: every row whose intensity index is a number has exactly one zone:
\* "Alta" iff index <= 0.95, "Moderada" iff 0.95 < index <= 1.15, "Baixa"
\* iff index > 1.15; 0.95 is "Alta" and 1.15 is "Moderada".
C1_ZoneThresholds ==
    Classified =>
        \A i \in 1..Len(df_intensity) :
            LET x    == df_intensity[i].intensity_index
                zone == df_intensity[i].intensity_zone_pace
            IN  IsNum(x) =>
                  /\ zone \in {"Alta", "Moderada", "Baixa"}
                  /\ (zone = "Alta") <=> (100 * x.n <= 95 * x.d)
                  /\ (zone = "Moderada")
                        <=> (95 * x.d < 100 * x.n /\ 100 * x.n <= 115 * x.d)
                  /\ (zone = "Baixa") <=> (100 * x.n > 115 * x.d)

\* threshold pace 5:00: 4:45 has index 0.95 and is "Alta", 5:45 has index
\* 1.15 and is "Moderada", 5:46 is "Baixa"
C1_Witness ==
    /\ pc = "classified"
    /\ adjusted_reference_pace = Num(5, 1)
    /\ \E i, j, l \in 1..Len(df_intensity) :
          /\ df_intensity[i].average_pace = Num(285, 60)
          /\ df_intensity[i].intensity_index = Num(95, 100)
          /\ df_intensity[i].intensity_zone_pace = "Alta"
          /\ df_intensity[j].average_pace = Num(345, 60)
          /\ df_intensity[j].intensity_index = Num(115, 100)
          /\ df_intensity[j].intensity_zone_pace = "Moderada"
          /\ df_intensity[l].average_pace = Num(346, 60)
          /\ df_intensity[l].intensity_zone_pace = "Baixa"

\* the table of the claim: distance (0.01 km) and factor (percent)
FactorTable ==
    { <<500, 105>>, <<1000, 103>>, <<1500, 100>>, <<2110, 98>>, <<4220, 95>> }

\* the key of the table closest to d, the smaller of two equally close
IsClosestKey(e, d) ==
    \A o \in FactorTable :
        \/ AbsInt(e[1] - d) < AbsInt(o[1] - d)
        \/ (AbsInt(e[1] - d) = AbsInt(o[1] - d) /\ e[1] <= o[1])

\* C2: the adjusted threshold pace is the reference pace times the factor
\* of the table key closest to the reference distance, the smaller key when
\* two keys are equally close.
C2_AdjustedPace ==
    Classified =>
        \E e \in FactorTable :
            /\ IsClosestKey(e, race_distance)
            /\ IsNum(adjusted_reference_pace)
            /\ adjusted_reference_pace.n * race_pace.d * 100
                  = race_pace.n * e[2] * adjusted_reference_pace.d

\* 18.05 km lies midway between 15.0 and 21.1: factor 1.00 of the key 15.0
C2_Witness ==
    /\ pc = "classified"
    /\ race_distance = 1805
    /\ adjusted_reference_pace = race_pace

LowRows == {i \in 1..Len(df_intensity) :
               df_intensity[i].intensity_zone_pace = "Baixa"}

\* C3 as stated: easy_percentage is exactly 100 x low / total, 0.0 for no
\* row, and lies in [0, 100].
C3_ExactShare ==
    pc = "classified" =>
        /\ IsNum(easy_percentage)
        /\ Len(df_intensity) = 0 => easy_percentage = Num(0, 1)
        /\ Len(df_intensity) > 0 =>
              easy_percentage.n * Len(df_intensity)
                 = 100 * Cardinality(LowRows) * easy_percentage.d
        /\ 0 <= easy_percentage.n /\ easy_percentage.n <= 100 * easy_percentage.d

\* C3 amended: easy_percentage is 100 x low / total rounded to one decimal
\* place (a multiple of 0.1 at most 0.05 away), 0.0 for no row, in [0, 100].
C3_RoundedShare ==
    pc = "classified" =>
        /\ IsNum(easy_percentage)
        /\ Len(df_intensity) = 0 => easy_percentage = Num(0, 1)
        /\ Len(df_intensity) > 0 =>
              LET total  == Len(df_intensity)
                  tenths == (10 * easy_percentage.n) \div easy_percentage.d
              IN  /\ (10 * easy_percentage.n) % easy_percentage.d = 0
                  /\ 2 * AbsInt(tenths * total - 1000 * Cardinality(LowRows))
                        <= total
        /\ 0 <= easy_percentage.n /\ easy_percentage.n <= 100 * easy_percentage.d

\* one low-intensity row of three: 33.3
C3_Witness ==
    /\ pc = "classified"
    /\ Len(df_intensity) = 3
    /\ Cardinality(LowRows) = 1
    /\ easy_percentage = Num(333, 10)

----------------------------------------------------------------------------
(* Properties of the page run (Spec) *)

RECURSIVE SeqSum(_)
SeqSum(s) == IF s = <<>> THEN 0 ELSE Head(s) + SeqSum(Tail(s))

\* the rows of a weekly table that carry the week of a date-time
WeekRows(table, datetime) ==
    {g \in 1..Len(table) :
        /\ table[g].Year = IsoCalendar(datetime).year
        /\ table[g].Week = IsoCalendar(datetime).week}

\* C4: a filtered activity whose average speed is zero or negative has no
\* row in the intensity table (so no zone, and no part in the total or the
\* low count of easy_percentage), and is counted in the weekly aggregates.
C4_NoPaceNoZone ==
    pc \in {"summary", "done"} =>
        \A i \in 1..Len(df_filtered) :
            df_filtered[i].average_speed <= 0 =>
                /\ \A j \in 1..Len(df_intensity) :
                      df_intensity[j].activity_id # df_filtered[i].activity_id
                /\ WeekRows(weekly_distance, df_filtered[i].datetime_local) # {}
                /\ WeekRows(weekly_sessions, df_filtered[i].datetime_local) # {}

Aggregated == pc \in {"reference", "intensity", "summary", "done"}

\* C5: every filtered activity lies in exactly one (ISO year, ISO week) row
\* of the weekly tables; the weekly distances, times and session counts add
\* up to the distances, times and number of the filtered activities.
C5_WeeklyConservation ==
    Aggregated =>
        /\ \A i \in 1..Len(df_filtered) :
              /\ Cardinality(WeekRows(weekly_distance,
                                      df_filtered[i].datetime_local)) = 1
              /\ Cardinality(WeekRows(weekly_sessions,
                                      df_filtered[i].datetime_local)) = 1
        /\ SeqSum([g \in 1..Len(weekly_distance) |-> weekly_distance[g].Distance])
              = SeqSum([i \in 1..Len(df_filtered) |-> df_filtered[i].distance])
        /\ SeqSum([g \in 1..Len(weekly_distance) |-> weekly_distance[g].Time])
              = SeqSum([i \in 1..Len(df_filtered) |-> df_filtered[i].moving_time])
        /\ SeqSum([g \in 1..Len(weekly_sessions) |-> weekly_sessions[g].Sessions])
              = Len(df_filtered)

\* Monday 2024-12-30 and Wednesday 2025-01-01 share the row of 2025-W01,
\* Monday 2024-12-23 is alone in 2024-W52
C5_Witness ==
    /\ pc = "reference"
    /\ Len(df_filtered) = 3
    /\ {df_filtered[i].activity_id : i \in 1..3} = {1, 3, 4}
    /\ Len(weekly_distance) = 2
    /\ weekly_distance[1].Year = 2024 /\ weekly_distance[1].Week = 52
    /\ weekly_distance[1].Distance = 1000
    /\ weekly_distance[2].Year = 2025 /\ weekly_distance[2].Week = 1
    /\ weekly_distance[2].Distance = 4100 /\ weekly_distance[2].Time = 127
    /\ weekly_sessions[2].Sessions = 2

\* value of (cur - prev) / prev * 100 in IEEE arithmetic
IsPctOf(p, cur, prev) ==
    IF prev # 0
    THEN IsNum(p) /\ p.n * prev = 100 * (cur - prev) * p.d
    ELSE IF cur = 0 THEN p = NaN ELSE p = Inf(SignInt(cur))

\* C6: the first weekly row has no percentage change (NaN, not zero); every
\* later row has (current - previous) / previous * 100 of the row before it
\* in the table, for the distance and for the moving time.
C6_PctChange ==
    pc \in {"frequency", "reference", "intensity", "summary", "done"} =>
        \A g \in 1..Len(weekly_distance) :
            IF g = 1
            THEN /\ weekly_distance[g].Distance_pct = NaN
                 /\ weekly_distance[g].Time_pct = NaN
            ELSE /\ IsPctOf(weekly_distance[g].Distance_pct,
                            weekly_distance[g].Distance,
                            weekly_distance[g - 1].Distance)
                 /\ IsPctOf(weekly_distance[g].Time_pct,
                            weekly_distance[g].Time,
                            weekly_distance[g - 1].Time)

\* 10 km, then 11 km: +10; then 2025-W03 after 2025-W01, no row for W02:
\* 5 km after 11 km is -600/11 percent
C6_Witness ==
    /\ pc = "frequency"
    /\ Len(weekly_distance) = 3
    /\ weekly_distance[1].Distance = 1000 /\ weekly_distance[1].Distance_pct = NaN
    /\ weekly_distance[2].Distance = 1100
    /\ weekly_distance[2].Distance_pct = Num(10, 1)
    /\ weekly_distance[2].Time_pct = Num(10, 1)
    /\ weekly_distance[2].Week = 1 /\ weekly_distance[3].Week = 3
    /\ weekly_distance[3].Distance = 500
    /\ weekly_distance[3].Distance_pct = Num(-600, 11)

\* the rows of df kept by a date range and a type selection
Kept(range, types) ==
    {i \in 1..Len(df) :
        /\ range[1] * 24 <= df[i].datetime_local
        /\ df[i].datetime_local < (range[2] + 1) * 24
        /\ (types = {} \/ df[i].type \in types)}

----------------------------------------------------------------------------
(* Properties of the volume progression analysis (SpecVolume) *)

\* the classes of week i, read off the Distance_pct of its row in whole
\* numbers; +-infinity lies beyond every threshold, NaN in no class
Cur(i) == weekly_distance[i].Distance

ChangeIdeal(i) ==
    LET p == weekly_distance[i].Distance_pct
    IN  /\ IsNum(p)
        /\ 6 * p.d <= AbsInt(p.n)
        /\ AbsInt(p.n) <= 15 * p.d

ChangeTooLarge(i) ==
    LET p == weekly_distance[i].Distance_pct
    IN  \/ p.k = "inf"
        \/ IsNum(p) /\ AbsInt(p.n) > 15 * p.d

ChangeRecovery(i) ==
    LET p == weekly_distance[i].Distance_pct
    IN  \/ p.k = "inf" /\ p.n < 0
        \/ IsNum(p) /\ p.n < -20 * p.d

Weeks == 1..Len(weekly_distance)

TooLargeCount == Cardinality({i \in Weeks : ChangeTooLarge(i)})

RecoveryCount == Cardinality({i \in Weeks : ChangeRecovery(i)})

AllIdeal == \A i \in Weeks : i > 1 => ChangeIdeal(i)

\* C8 as stated: pct_too_large is 100 x (too large transitions) / (n - 1)
\* for n weeks; 0, with has_recovery false, when all transitions are ideal.
C8_ShareOfTransitions ==
    (pc = "analyzed" /\ Len(weekly_distance) >= 2) =>
        /\ IsNum(volume_analysis.pct_too_large)
        /\ volume_analysis.pct_too_large.n * (Len(weekly_distance) - 1)
              = 100 * TooLargeCount * volume_analysis.pct_too_large.d
        /\ AllIdeal => /\ volume_analysis.pct_too_large = Num(0, 1)
                       /\ ~volume_analysis.has_recovery

\* C8 amended: pct_too_large is 100 x (too large transitions) / n for n >= 1
\* weeks; 0, with has_recovery false, when all transitions are ideal.
C8_ShareOfWeeks ==
    (pc = "analyzed" /\ Len(weekly_distance) >= 1) =>
        /\ IsNum(volume_analysis.pct_too_large)
        /\ volume_analysis.pct_too_large.n * Len(weekly_distance)
              = 100 * TooLargeCount * volume_analysis.pct_too_large.d
        /\ AllIdeal => /\ volume_analysis.pct_too_large = Num(0, 1)
                       /\ ~volume_analysis.has_recovery

\* [100, 115, 40]: one of the two transitions is too large, three weeks
C8_Witness ==
    /\ pc = "analyzed"
    /\ [i \in Weeks |-> Cur(i)] = <<100, 115, 40>>
    /\ TooLargeCount = 1
    /\ volume_analysis.pct_too_large = Num(100, 3)

\* C9: recovery_freq is weeks / recovery weeks with at least one recovery
\* week and the number of weeks with none, always a finite number;
\* has_recovery iff there is at least one recovery week.
C9_RecoveryFreq ==
    pc = "analyzed" =>
        /\ IsNum(volume_analysis.recovery_freq)
        /\ RecoveryCount >= 1 =>
              volume_analysis.recovery_freq.n * RecoveryCount
                 = Len(weekly_distance) * volume_analysis.recovery_freq.d
        /\ RecoveryCount = 0 =>
              volume_analysis.recovery_freq = Num(Len(weekly_distance), 1)
        /\ volume_analysis.has_recovery <=> RecoveryCount >= 1

\* [100, 40, 100, 40]: two recovery weeks in four, frequency 2
C9_Witness ==
    /\ pc = "analyzed"
    /\ [i \in Weeks |-> Cur(i)] = <<100, 40, 100, 40>>
    /\ volume_analysis.recovery_freq = Num(2, 1)
    /\ volume_analysis.has_recovery

----------------------------------------------------------------------------
(* Further properties of the page run (Spec) *)

\* the filter has run on a non-empty table and kept nothing
EmptyFilter == df # <<>> /\ pc # "start" /\ df_filtered = <<>>

\* C11: when the filter keeps no activity, every later step of the page run
\* completes and no exception is raised.
C11_EmptyFilterCompletes == EmptyFilter => pc # "error"

\* add_intensity_index and compute_easy_percentage have run
IntensityRan == easy_percentage # None

\* C12: with no Run or Hike activity in the filtered set, the easy
\* percentage of the page is 0.0, the one of the training summary is 0.0 as
\* well, and no exception is raised.
C12_ZeroIntensityNoError ==
    (IntensityRan /\ df_intensity = <<>>)
        => /\ easy_percentage = Num(0, 1)
           /\ pc # "error"
           /\ pc = "done" => intensity_analysis.easy_percentage = Num(0, 1)

LongestRunsDone ==
    pc \in {"frequency", "reference", "intensity", "summary", "done"}

SameWeek(a, b) ==
    IsoCalendar(a.datetime_local) = IsoCalendar(b.datetime_local)

\* C16: the longest-run row of a week is a Run of that week of the largest
\* distance, and of several Runs of that distance it is the one that starts
\* earliest, whatever the order of the rows.
C16_LongestRunEarliestTie ==
    LongestRunsDone =>
        \A g \in 1..Len(longest_runs) :
            /\ \E i \in 1..Len(df_filtered) :
                  /\ df_filtered[i].activity_id = longest_runs[g].activity_id
                  /\ df_filtered[i].sport = "Run"
            /\ \A i \in 1..Len(df_filtered) :
                  (df_filtered[i].sport = "Run"
                     /\ SameWeek(df_filtered[i], longest_runs[g]))
                  => /\ df_filtered[i].distance <= longest_runs[g].distance
                     /\ df_filtered[i].distance = longest_runs[g].distance
                          => longest_runs[g].datetime_local
                                <= df_filtered[i].datetime_local

IntensityIds == {df_intensity[i].activity_id : i \in 1..Len(df_intensity)}

\* C18: the rows with an intensity index and zone are exactly the filtered
\* rows of sport Run or Hike, each once; the rows of other sports have none
\* and are still counted in the weekly distance, time and sessions.
C18_RunHikeOnly ==
    IntensityRan =>
        /\ \A i \in 1..Len(df_intensity) :
              /\ df_intensity[i].sport \in {"Run", "Hike"}
              /\ df_intensity[i].intensity_zone_pace
                    \in {"Alta", "Moderada", "Baixa"}
        /\ \A j \in 1..Len(df_filtered) :
              Cardinality({i \in 1..Len(df_intensity) :
                  df_intensity[i].activity_id = df_filtered[j].activity_id})
                = IF df_filtered[j].sport \in {"Run", "Hike"} THEN 1 ELSE 0
        /\ SeqSum([g \in 1..Len(weekly_sessions) |-> weekly_sessions[g].Sessions])
              = Len(df_filtered)
        /\ SeqSum([g \in 1..Len(weekly_distance) |-> weekly_distance[g].Distance])
              = SeqSum([j \in 1..Len(df_filtered) |-> df_filtered[j].distance])
        /\ SeqSum([g \in 1..Len(weekly_distance) |-> weekly_distance[g].Time])
              = SeqSum([j \in 1..Len(df_filtered) |-> df_filtered[j].moving_time])

\* a Ride stays in the weekly table, a Hike and a Run are classified
C18_Witness ==
    /\ pc = "done"
    /\ \E j \in 1..Len(df_filtered) : df_filtered[j].sport = "Ride"
    /\ \E i \in 1..Len(df_intensity) : df_intensity[i].sport = "Hike"
    /\ \E i \in 1..Len(df_intensity) : df_intensity[i].sport = "Run"
    /\ Len(df_intensity) = 2

ReferenceChosen == selection # ""

Races == {i \in 1..Len(df_filtered) : df_filtered[i].workout_type = <<1>>}

\* C19: "detected" uses the pace 60 / speed and the distance of a race-tagged
\* row of the highest speed, and is chosen only when such a row with a
\* speed exists; every other choice uses the manual minutes + seconds / 60
\* and the manual distance.
C19_ReferenceChoice ==
    ReferenceChosen =>
        /\ selection \in {"detected", "manual"}
        /\ selection = "detected" =>
              \E i \in Races :
                  /\ \A j \in Races : df_filtered[j].average_speed
                                         <= df_filtered[i].average_speed
                  /\ df_filtered[i].average_speed > 0
                  /\ race_pace.k = "num"
                  /\ race_pace.n * df_filtered[i].average_speed
                        = 60 * race_pace.d
                  /\ race_distance = df_filtered[i].distance
        /\ selection = "manual" =>
              /\ race_pace.k = "num"
              /\ \E seconds \in 2 * 60 .. 10 * 60 + 59 :
                    60 * race_pace.n = seconds * race_pace.d
              /\ \E km \in 5..100 : race_distance = 100 * km

\* two races of different speed in the filtered set, the faster one chosen
C19_Witness ==
    /\ selection = "detected"
    /\ \E i, j \in Races :
          df_filtered[i].average_speed < df_filtered[j].average_speed
    /\ race_pace = Num(60, 15)
    /\ race_distance = 500

\* C20: whenever add_intensity_index runs, a reference has been chosen, its
\* pace is a number > 0 and its distance is set.
C20_ReferenceDefined ==
    (pc = "intensity" \/ IntensityRan) =>
        /\ selection \in {"detected", "manual"}
        /\ race_pace.k = "num"
        /\ race_pace.n > 0
        /\ race_distance > 0
        /\ adjusted_reference_pace # None =>
              adjusted_reference_pace.k = "num" /\ adjusted_reference_pace.n > 0

\* the classifier has run on the smallest manual pace, and on a detected one
C20_Witness ==
    /\ IntensityRan
    /\ Len(df_intensity) > 0
    /\ selection = "manual"
    /\ race_pace = Num(2, 1)

----------------------------------------------------------------------------
(* Properties of the frequency analysis (SpecFrequency) *)

Sessions(i) == weekly_sessions[i].Sessions

SessionWeeks == 1..Len(weekly_sessions)

WeeksWith(v) == Cardinality({i \in SessionWeeks : Sessions(i) = v})

FrequencyAnalysed == pc \in {"frequency_box", "judged"}

\* C13: the reported mode occurs at least as often as every other session
\* count, it is the smallest of the counts that occur that often, and
\* pct_consistent is the percentage of weeks whose count equals it.
C13_SmallestMode ==
    FrequencyAnalysed =>
        LET m == frequency_analysis.mode_sessions
        IN  /\ WeeksWith(m) > 0
            /\ \A i \in SessionWeeks : WeeksWith(Sessions(i)) <= WeeksWith(m)
            /\ \A i \in SessionWeeks :
                  WeeksWith(Sessions(i)) = WeeksWith(m) => m <= Sessions(i)
            /\ frequency_analysis.pct_consistent.k = "num"
            /\ frequency_analysis.pct_consistent.n * Len(weekly_sessions)
                  = 100 * WeeksWith(m) * frequency_analysis.pct_consistent.d

\* the counts 3, 3, 4, 4, 5: mode 3, two weeks of five
C13_Witness ==
    /\ FrequencyAnalysed
    /\ [i \in SessionWeeks |-> Sessions(i)] = <<3, 3, 4, 4, 5>>
    /\ frequency_analysis.mode_sessions = 3
    /\ frequency_analysis.pct_consistent = Num(40, 1)

SumSessions == SeqSum([i \in SessionWeeks |-> Sessions(i)])

SumSquares == SeqSum([i \in SessionWeeks |-> Sessions(i) * Sessions(i)])

\* (std / mean * 100) < 25 with std^2 = (n * sum x^2 - (sum x)^2) / (n (n - 1))
\* and mean = sum x / n, cleared of the root and the fractions
CvBelow25 ==
    LET n == Len(weekly_sessions)
    IN  /\ n >= 2
        /\ 16 * n * (n * SumSquares - SumSessions * SumSessions)
              < (n - 1) * SumSessions * SumSessions

\* C14: the frequency box says "consistent" exactly when CV < 25; a CV of
\* exactly 25 and an undefined CV are judged irregular.
C14_ConsistentBelow25 ==
    pc = "judged" =>
        /\ verdicts.frequency \in {"consistent", "irregular"}
        /\ verdicts.frequency = "consistent" <=> CvBelow25

\* the counts 3, 4, 5 have mean 4 and standard deviation 1: CV = 25
C14_Witness ==
    /\ pc = "judged"
    /\ [i \in SessionWeeks |-> Sessions(i)] = <<3, 4, 5>>
    /\ frequency_analysis.cv_squared = Num(625, 1)
    /\ verdicts.frequency = "irregular"

\* C15: with at most one week the analysis does not raise and the CV it
\* returns is not NaN.
C15_DegenerateNotNaN ==
    (pc # "analyze_frequency_consistency" /\ Len(weekly_sessions) <= 1)
        => /\ pc # "error"
           /\ frequency_analysis.cv_squared # NaN

----------------------------------------------------------------------------
(* Properties of the normalisation (SpecNormalize) *)

CompleteRecords ==
    SelectRows(activities,
               [i \in 1..Len(activities) |->
                   RequiredKeys \subseteq activities[i].keys])

\* C17: a raw record that lacks a required field is dropped and the other
\* records of the batch are normalized and returned.
C17_IncompleteDropped ==
    pc # "normalize" =>
        /\ pc = "normalized"
        /\ Len(df) = Len(CompleteRecords)
        /\ \A i \in 1..Len(df) : df[i].activity_id = CompleteRecords[i].id

----------------------------------------------------------------------------
(* Further properties of the intensity classification (SpecIntensity) *)

\* C21: the adjusted pace is slower than the reference pace when the closest
\* key is 5.0 or 10.0, equal when it is 15.0, faster when it is 21.1 or
\* 42.2, and no shorter reference distance gives a faster adjusted pace.
C21_FactorMonotone ==
    Classified =>
        /\ \E e \in FactorTable :
              /\ IsClosestKey(e, race_distance)
              /\ e[1] \in {500, 1000} => Gt(adjusted_reference_pace, race_pace)
              /\ e[1] = 1500 => adjusted_reference_pace = race_pace
              /\ e[1] \in {2110, 4220} => Lt(adjusted_reference_pace, race_pace)
        /\ \A d \in ReferenceDistances :
              d <= race_distance
                 => Ge(adjusted_pace(race_pace, d), adjusted_reference_pace)

\* a marathon reference of 4:30 gives a threshold pace of 4:16.5
C21_Witness ==
    /\ Classified
    /\ race_distance = 4220
    /\ race_pace = Num(270, 60)
    /\ adjusted_reference_pace = Num(2565, 600)

----------------------------------------------------------------------------
(* Further properties of the weekly tables and the page (Spec) *)

Filtered == pc \in {"volume", "longest_runs", "frequency", "reference"}

\* C22: filtering the filtered rows again with the same date range and the
\* same types gives the same rows in the same order.
C22_FilterIdempotent ==
    Filtered =>
        TimeWindowFilter(df_filtered, date_range, selected_activity_type)
           = df_filtered

\* the filter has dropped a row for its date or type and kept others
C22_Witness ==
    /\ Filtered
    /\ selected_activity_type # {}
    /\ Len(df_filtered) = 2
    /\ Len(df) = 3

FilteredKeys ==
    {IsoCalendar(df_filtered[i].datetime_local) : i \in 1..Len(df_filtered)}

KeyOf(row) == [year |-> row.Year, week |-> row.Week]

\* C23: the weekly tables have one row for every (ISO year, ISO week) that
\* holds a filtered activity and no other row, in strictly ascending order
\* of (year, week); every row counts at least one session.
C23_WeeklyBuckets ==
    Aggregated =>
        /\ {KeyOf(weekly_distance[g]) : g \in 1..Len(weekly_distance)}
              = FilteredKeys
        /\ {KeyOf(weekly_sessions[g]) : g \in 1..Len(weekly_sessions)}
              = FilteredKeys
        /\ \A g \in 1..Len(weekly_distance) - 1 :
              KeyLt(KeyOf(weekly_distance[g]), KeyOf(weekly_distance[g + 1]))
        /\ \A g \in 1..Len(weekly_sessions) - 1 :
              KeyLt(KeyOf(weekly_sessions[g]), KeyOf(weekly_sessions[g + 1]))
        /\ \A g \in 1..Len(weekly_sessions) :
              /\ weekly_sessions[g].Sessions >= 1
              /\ weekly_sessions[g].Sessions
                    = Cardinality({i \in 1..Len(df_filtered) :
                          IsoCalendar(df_filtered[i].datetime_local)
                             = KeyOf(weekly_sessions[g])})

\* 2024-W52, 2025-W01 and 2025-W03 in this order, nothing for 2025-W02
C23_Witness ==
    /\ Aggregated
    /\ Len(weekly_sessions) = 3
    /\ KeyOf(weekly_sessions[1]) = [year |-> 2024, week |-> 52]
    /\ KeyOf(weekly_sessions[2]) = [year |-> 2025, week |-> 1]
    /\ KeyOf(weekly_distance[3]) = [year |-> 2025, week |-> 3]

Logged(event) == \E i \in 1..Len(session_log) : session_log[i] = event

\* C28: a fetch that returns no activity is logged as failed, the warning is
\* shown, no part of the pipeline runs and the run ends without an
\* exception; without a token in the session nothing is fetched.
C28_NoActivitiesHandled ==
    /\ Logged("data_load_failed")
          => /\ "no_activities" \in warnings
             /\ df_filtered = <<>> /\ weekly_distance = <<>>
             /\ weekly_sessions = <<>> /\ df_intensity = <<>>
             /\ pc # "error"
    /\ access_token = "" => pc \in {"token", "stopped"}

\* C30: the percentage changes of every week after the first are finite
\* numbers, also after a week whose total is 0.
C30_PctChangeFinite ==
    Aggregated =>
        \A g \in 2..Len(weekly_distance) :
            /\ weekly_distance[g].Distance_pct.k = "num"
            /\ weekly_distance[g].Time_pct.k = "num"

----------------------------------------------------------------------------
(* Further properties of the volume analysis (SpecVolume) *)

RecoveryVerdicts == {"no_recovery", "inconsistent", "too_rare", "included"}

\* C24 as stated: "recovery weeks included" is shown exactly when there is a
\* recovery week and 2 < recovery_freq <= 5.
C24_GoodAbove2 ==
    pc = "judged" =>
        /\ verdicts.recovery \in RecoveryVerdicts
        /\ verdicts.recovery = "included"
              <=> /\ RecoveryCount >= 1
                  /\ 2 * RecoveryCount < Len(weekly_distance)
                  /\ Len(weekly_distance) <= 5 * RecoveryCount

\* C24: exactly one of the four recovery verdicts is shown: "no recovery"
\* without a recovery week, "inconsistent" for recovery_freq < 2, "too rare"
\* for recovery_freq > 5, and "included" exactly for 2 <= recovery_freq <= 5.
C24_GoodFrom2To5 ==
    pc = "judged" =>
        LET n == Len(weekly_distance)
        IN  /\ verdicts.recovery \in RecoveryVerdicts
            /\ verdicts.recovery = "no_recovery" <=> RecoveryCount = 0
            /\ verdicts.recovery = "inconsistent"
                  <=> (RecoveryCount >= 1 /\ n < 2 * RecoveryCount)
            /\ verdicts.recovery = "too_rare"
                  <=> (RecoveryCount >= 1 /\ n > 5 * RecoveryCount)
            /\ verdicts.recovery = "included"
                  <=> /\ RecoveryCount >= 1
                      /\ 2 * RecoveryCount <= n
                      /\ n <= 5 * RecoveryCount

\* two recovery weeks in four: a frequency of exactly 2 is judged good
C24_Witness ==
    /\ pc = "judged"
    /\ Len(weekly_distance) = 4
    /\ RecoveryCount = 2
    /\ volume_analysis.recovery_freq = Num(2, 1)
    /\ verdicts.recovery = "included"

\* C29: every week flagged as a recovery week is flagged as too large and
\* not as ideal, so there are at least as many too-large changes as recovery
\* weeks and pct_too_large is at least the share of the recovery weeks.
C29_RecoveryIsTooLarge ==
    pc \in {"analyzed", "judged"} =>
        /\ \A i \in Weeks :
              volume_analysis.recovery_weeks[i]
                 => /\ volume_analysis.too_large_changes[i]
                    /\ ~volume_analysis.ideal_changes[i]
        /\ CountTrue(volume_analysis.too_large_changes)
              >= CountTrue(volume_analysis.recovery_weeks)
        /\ Len(weekly_distance) > 0
              => Ge(volume_analysis.pct_too_large,
                    Num(100 * CountTrue(volume_analysis.recovery_weeks),
                        Len(weekly_distance)))

\* [100, 105, 40]: the third week is a recovery week and a too-large change
C29_Witness ==
    /\ pc = "analyzed"
    /\ [i \in Weeks |-> Cur(i)] = <<100, 105, 40>>
    /\ volume_analysis.recovery_weeks = <<FALSE, FALSE, TRUE>>
    /\ volume_analysis.too_large_changes = <<FALSE, FALSE, TRUE>>

----------------------------------------------------------------------------
(* Properties of the fetch loop (SpecFetch, SpecFetchFair) *)

InLoop == pc \in {"check", "request"}

\* C25: the fetch loop ends, whatever the server answers.
C25_LoopTerminates == <>(~InLoop)

RECURSIVE Flatten(_)
Flatten(pages) ==
    IF pages = <<>> THEN <<>> ELSE Head(pages) \o Flatten(Tail(pages))

\* the records of the pages before the current one, once each, in page order
Collected ==
    /\ page - 1 <= Len(server.pages)
    /\ activities = Flatten(SubSeq(server.pages, 1, page - 1))

\* a request advances the page by one exactly when its answer is a 200 with
\* records, which are those of the requested page and are appended; every
\* other step leaves the page and the records as they are
PageStep ==
    IF pc = "request" /\ response'.status = 200 /\ response'.body # <<>>
    THEN /\ page' = page + 1
         /\ response'.body = server.pages[page]
         /\ activities' = activities \o response'.body
    ELSE /\ page' = page
         /\ activities' = activities

\* C26: pages are requested in the order 1, 2, 3, ...; the page advances
\* only after a 200 with records, a 429 makes the same page be requested
\* again, and the records of each page are appended once, in page order.
C26_PageOrder == [](page >= 1 /\ Collected) /\ [][PageStep]_vars

\* every page was answered 429 first and 200 on the retry
C26_Witness ==
    /\ pc = "normalize"
    /\ server.behaviour = "alternate"
    /\ Len(server.pages) = 2
    /\ page = 3
    /\ Len(activities) = 3
    /\ daily_requests = 6

\* an answered request, 429 included, is counted in both counters
CountStep ==
    (pc = "request" /\ response'.status # -1)
        => /\ requests_in_window' = requests_in_window + 1
           /\ daily_requests' = daily_requests + 1

\* C27: a request is sent only with requests_in_window < 100 and
\* daily_requests < 1000, every answered request is counted, and the wait at
\* the window limit is never negative.
C27_RateLimits ==
    /\ [](/\ pc = "request" => /\ requests_in_window < 100
                               /\ daily_requests < 1000
          /\ requests_in_window <= 100
          /\ daily_requests <= 1000
          /\ wait_time >= 0
          /\ wait_time <= 900)
    /\ [][CountStep]_vars

\* 100 requests answered 429 in 100 seconds: the loop has waited 800 seconds
C27_Witness ==
    /\ pc = "request"
    /\ wait_time = 800
    /\ requests_in_window = 0
    /\ daily_requests = 100
    /\ response.status = 429

====
